---- MODULE Spec2Model ----
(***************************************************************************)
(* InvisiVote: encrypted polls with public decryption after the voting     *)
(* window.  A model of contracts/InvisiVote.sol.                           *)
(*                                                                         *)
(* Every external call is one atomic step (an EVM transaction: a revert    *)
(* undoes every write of the call).  A ciphertext (euint32) is modelled by *)
(* the plain value it encrypts; the FHE operators compute on that value as *)
(* the library does on the ciphertext.  euint32 arithmetic wraps at 2^32,  *)
(* which lies beyond TLC's integers: an accumulator would need 2^32        *)
(* accepted ballots on one poll to wrap, and it holds at most one unit per *)
(* address that voted, so the sum is modelled without the wrap.  Beside    *)
(* its plain value each accumulator has its handle, the bytes32 the        *)
(* contract stores, modelled as the term of the operations that made it.   *)
(***************************************************************************)
EXTENDS Integers, Sequences, FiniteSets, TLC

\* ---------------------------------------------------------------- bounds
\* block.timestamp ranges over 0..MaxTime
MaxTime == 3
\* Spec creates at most MaxVotes polls
MaxVotes == 1

\* ------------------------------------------------------ program constants
MinOptions == 2
MaxOptions == 4

\* ----------------------------------------------------------------- inputs
Addresses == {"alice", "bob"}
Titles == {"Best Season"}
AllLabels == <<"A", "B", "C", "D", "E">>
\* the option arrays a caller may pass: 0 to 5 labels
OptionLists == {SubSeq(AllLabels, 1, n) : n \in 0..(MaxOptions + 1)}
Times == 0..MaxTime
\* the ids a caller may pass: 0, every id that can exist, and one beyond
VoteIds == 0..(MaxVotes + 1)
\* the plain values a caller may encrypt as a choice
Choices == 0..MaxOptions

VARIABLES
    now,        \* block.timestamp
    voteCount,  \* _voteCount
    votes,      \* _votes
    hasVoted,   \* _hasVoted: the (voteId, voter) keys that map to true
    cast,       \* history: (voteId, voter) -> the plain choices of the voter's accepted ballots
    createdAt,  \* history: voteId -> block.timestamp of the createVote call
    publiclyDecryptable  \* the handles FHE.makePubliclyDecryptable was called on

vars == <<now, voteCount, votes, hasVoted, cast, createdAt, publiclyDecryptable>>

\* the state of a freshly deployed contract, at any block time
Init ==
    /\ now \in Times
    /\ voteCount = 0
    /\ votes = <<>>
    /\ hasVoted = {}
    /\ cast = <<>>
    /\ createdAt = <<>>
    /\ publiclyDecryptable = {}

\* the accepted ballots of voter a on poll id, oldest first
CastOf(id, a) == IF <<id, a>> \in DOMAIN cast THEN cast[<<id, a>>] ELSE <<>>

\* ------------------------------------------------- the FHE library, as used
FHE_asEuint32(x) == x
FHE_eq(a, b) == a = b
FHE_select(c, a, b) == IF c THEN a ELSE b
FHE_add(a, b) == a + b
\* the plain value of a ciphertext
Decrypt(ct) == ct
\* FHE.fromExternal: accepts the external handle only with a valid input proof
FHE_fromExternalOk(proofOk) == proofOk
\* FHE.checkSignatures: the KMS signs only true decryptions, so a proof verifies
\* for (handles, cleartexts) only if the cleartexts are the handles' plain values
FHE_checkSignatures(handles, cleartexts, proofOk) ==
    /\ proofOk
    /\ Len(cleartexts) = Len(handles)
    /\ \A i \in 1..Len(handles) : cleartexts[i] = Decrypt(handles[i])

\* The handle (bytes32) of a ciphertext, which is what the contract stores and what
\* a decryption permission is granted on.  The library derives the handle of a
\* result from the operation and the handles of its operands, so the same operation
\* on the same operands gives the same handle wherever it is computed.  The handle
\* of an external input is the caller's: H_input(sender, choice) is the encryption
\* of that choice by that sender, whose input proof binds it to the sender and to
\* the contract.
H_trivialEncrypt(x) == <<"trivialEncrypt", x>>
H_input(sender, choice) == <<"input", sender, choice>>
H_eq(a, b) == <<"fheEq", a, b>>
H_select(c, a, b) == <<"fheIfThenElse", c, a, b>>
H_add(a, b) == <<"fheAdd", a, b>>

\* ----------------------------------------------------------------- _getVote
\* VoteExists rejecting the last id too (>= for >)
VoteExists_OffByOne(voteId) == ~(voteId = 0 \/ voteId >= voteCount)

VoteExists(voteId) == ~(voteId = 0 \/ voteId > voteCount)

\* ---------------------------------------------------------------- createVote
\* createVoteError checking the times before the number of options
createVoteError_TimeFirst(options, startTime, endTime) ==
    IF endTime <= startTime \/ endTime <= now THEN "InvalidTimeRange"
    ELSE IF Len(options) < MinOptions \/ Len(options) > MaxOptions
    THEN "InvalidOptionsCount"
    ELSE "ok"

\* createVoteError without the check of endTime against block.timestamp
createVoteError_NoNowCheck(options, startTime, endTime) ==
    IF Len(options) < MinOptions \/ Len(options) > MaxOptions
    THEN "InvalidOptionsCount"
    ELSE IF endTime <= startTime THEN "InvalidTimeRange"
    ELSE "ok"

\* what the caller observes: the error the call reverts with, or "ok"
createVoteError(options, startTime, endTime) ==
    IF Len(options) < MinOptions \/ Len(options) > MaxOptions THEN "InvalidOptionsCount"
    ELSE IF endTime <= startTime \/ endTime <= now THEN "InvalidTimeRange"
    ELSE "ok"

\* NewVote with one accumulator more than options
NewVote_ExtraCount(title, options, startTime, endTime, sender) ==
    [title |-> title, options |-> options, startTime |-> startTime,
     endTime |-> endTime, creator |-> sender,
     decryptionRequested |-> FALSE, resultsPublished |-> FALSE,
     encryptedCounts |-> [i \in 1..(Len(options) + 1) |-> FHE_asEuint32(0)],
     countHandles |-> [i \in 1..(Len(options) + 1) |-> H_trivialEncrypt(0)],
     publicResults |-> <<>>]

\* NewVote with decryptionRequested set from the start
NewVote_Requested(title, options, startTime, endTime, sender) ==
    [title |-> title, options |-> options, startTime |-> startTime,
     endTime |-> endTime, creator |-> sender,
     decryptionRequested |-> TRUE, resultsPublished |-> FALSE,
     encryptedCounts |-> [i \in 1..Len(options) |-> FHE_asEuint32(0)],
     countHandles |-> [i \in 1..Len(options) |-> H_trivialEncrypt(0)],
     publicResults |-> <<>>]

NewVote(title, options, startTime, endTime, sender) ==
    [title |-> title, options |-> options, startTime |-> startTime,
     endTime |-> endTime, creator |-> sender,
     decryptionRequested |-> FALSE, resultsPublished |-> FALSE,
     encryptedCounts |-> [i \in 1..Len(options) |-> FHE_asEuint32(0)],
     countHandles |-> [i \in 1..Len(options) |-> H_trivialEncrypt(0)],
     publicResults |-> <<>>]

\* createVoteId keeping the counter as it is (voteId = _voteCount)
createVoteId_NoIncrement == voteCount

\* the id a successful createVote assigns and returns: voteId = ++_voteCount
createVoteId == voteCount + 1

\* a reverted call leaves the storage as it was
CreateVote(sender, title, options, startTime, endTime) ==
    IF createVoteError(options, startTime, endTime) # "ok"
    THEN UNCHANGED vars
    ELSE /\ voteCount' = createVoteId
         /\ votes' = Append(votes, NewVote(title, options, startTime, endTime, sender))
         /\ createdAt' = Append(createdAt, now)
         /\ UNCHANGED <<now, hasVoted, cast, publiclyDecryptable>>

\* ------------------------------------------------------------------ castVote
\* castVoteError without the check of _hasVoted
castVoteError_NoAlreadyVoted(voteId, sender, proofOk) ==
    IF ~VoteExists(voteId) THEN "VoteNotFound"
    ELSE IF now < votes[voteId].startTime THEN "VotingNotStarted"
    ELSE IF now > votes[voteId].endTime THEN "VotingEnded"
    ELSE IF ~FHE_fromExternalOk(proofOk) THEN "FHE_fromExternal_revert"
    ELSE "ok"

\* castVoteError checking _hasVoted before the window
castVoteError_AlreadyVotedFirst(voteId, sender, proofOk) ==
    IF ~VoteExists(voteId) THEN "VoteNotFound"
    ELSE IF <<voteId, sender>> \in hasVoted THEN "AlreadyVoted"
    ELSE IF now < votes[voteId].startTime THEN "VotingNotStarted"
    ELSE IF now > votes[voteId].endTime THEN "VotingEnded"
    ELSE IF ~FHE_fromExternalOk(proofOk) THEN "FHE_fromExternal_revert"
    ELSE "ok"

\* castVoteError closing the window one second early (>= for >)
castVoteError_EndExclusive(voteId, sender, proofOk) ==
    IF ~VoteExists(voteId) THEN "VoteNotFound"
    ELSE IF now < votes[voteId].startTime THEN "VotingNotStarted"
    ELSE IF now >= votes[voteId].endTime THEN "VotingEnded"
    ELSE IF <<voteId, sender>> \in hasVoted THEN "AlreadyVoted"
    ELSE IF ~FHE_fromExternalOk(proofOk) THEN "FHE_fromExternal_revert"
    ELSE "ok"

\* castVoteError without the check of endTime
castVoteError_NoEndCheck(voteId, sender, proofOk) ==
    IF ~VoteExists(voteId) THEN "VoteNotFound"
    ELSE IF now < votes[voteId].startTime THEN "VotingNotStarted"
    ELSE IF <<voteId, sender>> \in hasVoted THEN "AlreadyVoted"
    ELSE IF ~FHE_fromExternalOk(proofOk) THEN "FHE_fromExternal_revert"
    ELSE "ok"

castVoteError(voteId, sender, proofOk) ==
    IF ~VoteExists(voteId) THEN "VoteNotFound"
    ELSE IF now < votes[voteId].startTime THEN "VotingNotStarted"
    ELSE IF now > votes[voteId].endTime THEN "VotingEnded"
    ELSE IF <<voteId, sender>> \in hasVoted THEN "AlreadyVoted"
    ELSE IF ~FHE_fromExternalOk(proofOk) THEN "FHE_fromExternal_revert"
    ELSE "ok"

\* Increment leaving the loop at the first match (the later accumulators untouched,
\* the matching one not yet written)
Increment_EarlyExit(counts, choice, optionCount) ==
    [i \in 1..Len(counts) |->
        IF i <= optionCount /\ i - 1 < choice
        THEN FHE_add(counts[i],
                     FHE_select(FHE_eq(choice, FHE_asEuint32(i - 1)),
                                FHE_asEuint32(1), FHE_asEuint32(0)))
        ELSE counts[i]]

\* Increment clearing the accumulators the choice does not name
\* (select(isSelected, count + 1, 0) stored instead of count + select(...))
Increment_ResetOthers(counts, choice, optionCount) ==
    [i \in 1..Len(counts) |->
        IF i <= optionCount
        THEN FHE_select(FHE_eq(choice, FHE_asEuint32(i - 1)),
                        FHE_add(counts[i], FHE_asEuint32(1)), FHE_asEuint32(0))
        ELSE counts[i]]

\* Increment counting a choice beyond the last option for the last option
Increment_ClampLast(counts, choice, optionCount) ==
    [i \in 1..Len(counts) |->
        IF i <= optionCount
        THEN FHE_add(counts[i],
                     FHE_select(FHE_eq(IF choice >= optionCount
                                       THEN optionCount - 1 ELSE choice,
                                       FHE_asEuint32(i - 1)),
                                FHE_asEuint32(1), FHE_asEuint32(0)))
        ELSE counts[i]]

\* the loop over the options: accumulator i gets select(choice == i, 1, 0) added
Increment(counts, choice, optionCount) ==
    [i \in 1..Len(counts) |->
        IF i <= optionCount
        THEN FHE_add(counts[i],
                     FHE_select(FHE_eq(choice, FHE_asEuint32(i - 1)),
                                FHE_asEuint32(1), FHE_asEuint32(0)))
        ELSE counts[i]]

\* the events a castVote call leaves in the log: VoteCast(voteId, voter) when it
\* succeeds, nothing when it reverts
castVoteEvents(voteId, sender, proofOk) ==
    IF castVoteError(voteId, sender, proofOk) = "ok"
    THEN <<[name |-> "VoteCast", voteId |-> voteId, voter |-> sender]>>
    ELSE <<>>

\* IncrementHandles leaving the loop after the accumulator the choice names
IncrementHandles_EarlyExit(handles, choice, optionCount) ==
    [i \in 1..Len(handles) |->
        IF i <= optionCount /\ i - 1 <= choice[3]
        THEN H_add(handles[i],
                   H_select(H_eq(choice, H_trivialEncrypt(i - 1)),
                            H_trivialEncrypt(1), H_trivialEncrypt(0)))
        ELSE handles[i]]

\* the handles the loop over the options stores: the handle of
\* add(count, select(eq(choice, i), 1, 0)) for accumulator i
IncrementHandles(handles, choice, optionCount) ==
    [i \in 1..Len(handles) |->
        IF i <= optionCount
        THEN H_add(handles[i],
                   H_select(H_eq(choice, H_trivialEncrypt(i - 1)),
                            H_trivialEncrypt(1), H_trivialEncrypt(0)))
        ELSE handles[i]]

\* CastVote rejecting a choice that names no option (a branch on the plain choice)
CastVote_RejectOutOfRange(sender, voteId, choice, proofOk) ==
    IF castVoteError(voteId, sender, proofOk) # "ok"
    THEN UNCHANGED vars
    ELSE IF choice >= Len(votes[voteId].options)
    THEN UNCHANGED vars
    ELSE /\ hasVoted' = hasVoted \cup {<<voteId, sender>>}
         /\ votes' = [votes EXCEPT
                         ![voteId].encryptedCounts =
                             Increment(@, choice, Len(votes[voteId].options)),
                         ![voteId].countHandles =
                             IncrementHandles(@, H_input(sender, choice),
                                              Len(votes[voteId].options))]
         /\ cast' = [k \in DOMAIN cast \cup {<<voteId, sender>>} |->
                        IF k = <<voteId, sender>>
                        THEN Append(CastOf(voteId, sender), choice)
                        ELSE cast[k]]
         /\ UNCHANGED <<now, voteCount, createdAt, publiclyDecryptable>>

\* CastVote marking the voter on every poll (a marker kept per voter)
CastVote_MarkAllPolls(sender, voteId, choice, proofOk) ==
    IF castVoteError(voteId, sender, proofOk) # "ok"
    THEN UNCHANGED vars
    ELSE /\ hasVoted' = hasVoted \cup {<<id, sender>> : id \in 1..voteCount}
         /\ votes' = [votes EXCEPT
                         ![voteId].encryptedCounts =
                             Increment(@, choice, Len(votes[voteId].options)),
                         ![voteId].countHandles =
                             IncrementHandles(@, H_input(sender, choice),
                                              Len(votes[voteId].options))]
         /\ cast' = [k \in DOMAIN cast \cup {<<voteId, sender>>} |->
                        IF k = <<voteId, sender>>
                        THEN Append(CastOf(voteId, sender), choice)
                        ELSE cast[k]]
         /\ UNCHANGED <<now, voteCount, createdAt, publiclyDecryptable>>

\* CastVote keeping the write of _hasVoted when FHE.fromExternal reverts
CastVote_MarkerKept(sender, voteId, choice, proofOk) ==
    IF castVoteError(voteId, sender, proofOk) = "FHE_fromExternal_revert"
    THEN /\ hasVoted' = hasVoted \cup {<<voteId, sender>>}
         /\ UNCHANGED <<now, voteCount, votes, cast, createdAt, publiclyDecryptable>>
    ELSE IF castVoteError(voteId, sender, proofOk) # "ok"
    THEN UNCHANGED vars
    ELSE /\ hasVoted' = hasVoted \cup {<<voteId, sender>>}
         /\ votes' = [votes EXCEPT
                         ![voteId].encryptedCounts =
                             Increment(@, choice, Len(votes[voteId].options)),
                         ![voteId].countHandles =
                             IncrementHandles(@, H_input(sender, choice),
                                              Len(votes[voteId].options))]
         /\ cast' = [k \in DOMAIN cast \cup {<<voteId, sender>>} |->
                        IF k = <<voteId, sender>>
                        THEN Append(CastOf(voteId, sender), choice)
                        ELSE cast[k]]
         /\ UNCHANGED <<now, voteCount, createdAt, publiclyDecryptable>>

\* the marker of line 85 is written before FHE.fromExternal of line 87 validates
\* the input; when that reverts the transaction reverts and the marker with it
CastVote(sender, voteId, choice, proofOk) ==
    IF castVoteError(voteId, sender, proofOk) # "ok"
    THEN UNCHANGED vars
    ELSE /\ hasVoted' = hasVoted \cup {<<voteId, sender>>}
         /\ votes' = [votes EXCEPT
                         ![voteId].encryptedCounts =
                             Increment(@, choice, Len(votes[voteId].options)),
                         ![voteId].countHandles =
                             IncrementHandles(@, H_input(sender, choice),
                                              Len(votes[voteId].options))]
         /\ cast' = [k \in DOMAIN cast \cup {<<voteId, sender>>} |->
                        IF k = <<voteId, sender>>
                        THEN Append(CastOf(voteId, sender), choice)
                        ELSE cast[k]]
         /\ UNCHANGED <<now, voteCount, createdAt, publiclyDecryptable>>

\* ---------------------------------------------------- requestResultsDecryption
\* requestResultsDecryptionError opening one second late
requestResultsDecryptionError_Late(voteId) ==
    IF ~VoteExists(voteId) THEN "VoteNotFound"
    ELSE IF now <= votes[voteId].endTime + 1 THEN "VotingStillActive"
    ELSE IF votes[voteId].decryptionRequested THEN "DecryptionAlreadyRequested"
    ELSE "ok"

\* requestResultsDecryptionError opening at endTime (< for <=)
requestResultsDecryptionError_AtEnd(voteId) ==
    IF ~VoteExists(voteId) THEN "VoteNotFound"
    ELSE IF now < votes[voteId].endTime THEN "VotingStillActive"
    ELSE IF votes[voteId].decryptionRequested THEN "DecryptionAlreadyRequested"
    ELSE "ok"

requestResultsDecryptionError(voteId) ==
    IF ~VoteExists(voteId) THEN "VoteNotFound"
    ELSE IF now <= votes[voteId].endTime THEN "VotingStillActive"
    ELSE IF votes[voteId].decryptionRequested THEN "DecryptionAlreadyRequested"
    ELSE "ok"

\* RequestResultsDecryption open to the creator of the poll only
RequestResultsDecryption_OnlyCreator(sender, voteId) ==
    IF requestResultsDecryptionError(voteId) # "ok" \/ sender # votes[voteId].creator
    THEN UNCHANGED vars
    ELSE /\ votes' = [votes EXCEPT ![voteId].decryptionRequested = TRUE]
         /\ publiclyDecryptable' = publiclyDecryptable \cup
                {votes[voteId].countHandles[i] :
                    i \in 1..Len(votes[voteId].encryptedCounts)}
         /\ UNCHANGED <<now, voteCount, hasVoted, cast, createdAt>>

RequestResultsDecryption(sender, voteId) ==
    IF requestResultsDecryptionError(voteId) # "ok"
    THEN UNCHANGED vars
    ELSE /\ votes' = [votes EXCEPT ![voteId].decryptionRequested = TRUE]
         /\ publiclyDecryptable' = publiclyDecryptable \cup
                {votes[voteId].countHandles[i] :
                    i \in 1..Len(votes[voteId].encryptedCounts)}
         /\ UNCHANGED <<now, voteCount, hasVoted, cast, createdAt>>

\* -------------------------------------------------------------- publishResults
\* handles[i] = euint32.unwrap(vote.encryptedCounts[i]) for i < clearCounts.length
Handles(voteId, n) == [i \in 1..n |-> votes[voteId].encryptedCounts[i]]

\* publishResultsError without the check of decryptionRequested
publishResultsError_NoReadyCheck(voteId, clearCounts, proofOk) ==
    IF ~VoteExists(voteId) THEN "VoteNotFound"
    ELSE IF votes[voteId].resultsPublished THEN "ResultsAlreadyPublished"
    ELSE IF Len(clearCounts) # Len(votes[voteId].options) THEN "InvalidResultsLength"
    ELSE IF ~FHE_checkSignatures(Handles(voteId, Len(clearCounts)), clearCounts, proofOk)
         THEN "FHE_checkSignatures_revert"
    ELSE "ok"

\* publishResultsError without the check of resultsPublished
publishResultsError_NoPublishedCheck(voteId, clearCounts, proofOk) ==
    IF ~VoteExists(voteId) THEN "VoteNotFound"
    ELSE IF ~votes[voteId].decryptionRequested THEN "ResultsNotReady"
    ELSE IF Len(clearCounts) # Len(votes[voteId].options) THEN "InvalidResultsLength"
    ELSE IF ~FHE_checkSignatures(Handles(voteId, Len(clearCounts)), clearCounts, proofOk)
         THEN "FHE_checkSignatures_revert"
    ELSE "ok"

\* publishResultsError without the call of FHE.checkSignatures
publishResultsError_NoProofCheck(voteId, clearCounts, proofOk) ==
    IF ~VoteExists(voteId) THEN "VoteNotFound"
    ELSE IF ~votes[voteId].decryptionRequested THEN "ResultsNotReady"
    ELSE IF votes[voteId].resultsPublished THEN "ResultsAlreadyPublished"
    ELSE IF Len(clearCounts) # Len(votes[voteId].options) THEN "InvalidResultsLength"
    ELSE "ok"

\* publishResultsError checking the length of clearCounts first
publishResultsError_LengthFirst(voteId, clearCounts, proofOk) ==
    IF ~VoteExists(voteId) THEN "VoteNotFound"
    ELSE IF Len(clearCounts) # Len(votes[voteId].options) THEN "InvalidResultsLength"
    ELSE IF ~votes[voteId].decryptionRequested THEN "ResultsNotReady"
    ELSE IF votes[voteId].resultsPublished THEN "ResultsAlreadyPublished"
    ELSE IF ~FHE_checkSignatures(Handles(voteId, Len(clearCounts)), clearCounts, proofOk)
         THEN "FHE_checkSignatures_revert"
    ELSE "ok"

publishResultsError(voteId, clearCounts, proofOk) ==
    IF ~VoteExists(voteId) THEN "VoteNotFound"
    ELSE IF ~votes[voteId].decryptionRequested THEN "ResultsNotReady"
    ELSE IF votes[voteId].resultsPublished THEN "ResultsAlreadyPublished"
    ELSE IF Len(clearCounts) # Len(votes[voteId].options) THEN "InvalidResultsLength"
    ELSE IF ~FHE_checkSignatures(Handles(voteId, Len(clearCounts)), clearCounts, proofOk)
         THEN "FHE_checkSignatures_revert"
    ELSE "ok"

PublishResults(sender, voteId, clearCounts, proofOk) ==
    IF publishResultsError(voteId, clearCounts, proofOk) # "ok"
    THEN UNCHANGED vars
    ELSE /\ votes' = [votes EXCEPT ![voteId].publicResults = clearCounts,
                                   ![voteId].resultsPublished = TRUE]
         /\ UNCHANGED <<now, voteCount, hasVoted, cast, createdAt, publiclyDecryptable>>

\* ------------------------------------------------------------ view functions
getVoteCount == voteCount

getVoteError(voteId) == IF ~VoteExists(voteId) THEN "VoteNotFound" ELSE "ok"
getVote(voteId) ==
    [title |-> votes[voteId].title, options |-> votes[voteId].options,
     startTime |-> votes[voteId].startTime, endTime |-> votes[voteId].endTime,
     creator |-> votes[voteId].creator,
     decryptionRequested |-> votes[voteId].decryptionRequested,
     resultsPublished |-> votes[voteId].resultsPublished]

getEncryptedCountsError(voteId) == IF ~VoteExists(voteId) THEN "VoteNotFound" ELSE "ok"
getEncryptedCounts(voteId) == votes[voteId].encryptedCounts

\* getPublicResultsError without the check of resultsPublished
getPublicResultsError_NoCheck(voteId) ==
    IF ~VoteExists(voteId) THEN "VoteNotFound" ELSE "ok"

getPublicResultsError(voteId) ==
    IF ~VoteExists(voteId) THEN "VoteNotFound"
    ELSE IF ~votes[voteId].resultsPublished THEN "ResultsNotReady"
    ELSE "ok"
getPublicResults(voteId) == votes[voteId].publicResults

hasVotedError(voteId) == IF ~VoteExists(voteId) THEN "VoteNotFound" ELSE "ok"
\* hasVotedView reading a marker kept per poll, not per poll and voter
hasVotedView_IgnoresVoter(voteId, voter) == \E a \in Addresses : <<voteId, a>> \in hasVoted

hasVotedView(voteId, voter) == <<voteId, voter>> \in hasVoted

\* a call of a view function: it returns its value, or reverts, and writes nothing
Call_getVoteCount == UNCHANGED vars
Call_getVote(voteId) == UNCHANGED vars
Call_getEncryptedCounts(voteId) == UNCHANGED vars
Call_getPublicResults(voteId) == UNCHANGED vars
Call_hasVoted(voteId, voter) == UNCHANGED vars

\* the count arrays a caller may pass to publishResults for a poll: the plain
\* values of its accumulators, a forged array of the same length, a shorter and
\* a longer one
Bump(counts) == [i \in 1..Len(counts) |-> IF i = 1 THEN counts[i] + 1 ELSE counts[i]]
ClearCountsInputs(voteId) ==
    IF ~VoteExists(voteId) THEN {<<0, 0>>}
    ELSE LET plain == [i \in 1..Len(votes[voteId].encryptedCounts) |->
                          Decrypt(votes[voteId].encryptedCounts[i])]
         IN {plain, Bump(plain), Tail(plain), Append(plain, 0)}

\* ------------------------------------------------------------------- time
\* block.timestamp does not decrease
Tick ==
    /\ now < MaxTime
    /\ now' = now + 1
    /\ UNCHANGED <<voteCount, votes, hasVoted, cast, createdAt, publiclyDecryptable>>

Next ==
    \/ Tick
    \/ \E s \in Addresses, t \in Titles, o \in OptionLists, st \in Times, et \in Times :
          CreateVote(s, t, o, st, et) /\ voteCount' <= MaxVotes
    \/ \E s \in Addresses, id \in VoteIds, c \in Choices, ok \in BOOLEAN :
          CastVote(s, id, c, ok)
    \/ \E s \in Addresses, id \in VoteIds : RequestResultsDecryption(s, id)
    \/ \E s \in Addresses, id \in VoteIds, ok \in BOOLEAN :
          \E cc \in ClearCountsInputs(id) : PublishResults(s, id, cc, ok)
    \/ Call_getVoteCount
    \/ \E id \in VoteIds : Call_getVote(id)
    \/ \E id \in VoteIds : Call_getEncryptedCounts(id)
    \/ \E id \in VoteIds : Call_getPublicResults(id)
    \/ \E id \in VoteIds, a \in Addresses : Call_hasVoted(id, a)

Spec == Init /\ [][Next]_vars

\* ------------------------------------------------------------- several polls
\* the same operations with more polls and fewer inputs per call: one sender, one
\* or two options, startTime 0, ballots for option 0
MaxPolls == 3
PollIds == 0..(MaxPolls + 1)
PollSenders == {"alice"}
PollOptionLists == {SubSeq(AllLabels, 1, n) : n \in 1..2}

NextPolls ==
    \/ Tick
    \/ \E s \in PollSenders, t \in Titles, o \in PollOptionLists, et \in Times :
          CreateVote(s, t, o, 0, et) /\ voteCount' <= MaxPolls
    \/ \E s \in PollSenders, id \in PollIds, ok \in BOOLEAN : CastVote(s, id, 0, ok)
    \/ \E s \in PollSenders, id \in PollIds : RequestResultsDecryption(s, id)
    \/ \E s \in PollSenders, id \in PollIds, ok \in BOOLEAN :
          \E cc \in ClearCountsInputs(id) : PublishResults(s, id, cc, ok)

SpecPolls == Init /\ [][NextPolls]_vars

\* ---------------------------------------------------------------- progress
\* The operations under fairness: block.timestamp keeps advancing, and a call of
\* requestResultsDecryption or publishResults that would succeed is eventually
\* made.  The model's clock stops at MaxTime, so the polls created here end before
\* MaxTime: the clock can pass every endTime, as a real clock does.
LiveEndTimes == 0..(MaxTime - 1)

NextLive ==
    \/ Tick
    \/ \E s \in Addresses, t \in Titles, o \in PollOptionLists, st \in Times,
          et \in LiveEndTimes :
              CreateVote(s, t, o, st, et) /\ voteCount' <= MaxVotes
    \/ \E s \in Addresses, id \in VoteIds, c \in Choices, ok \in BOOLEAN :
          CastVote(s, id, c, ok)
    \/ \E s \in Addresses, id \in VoteIds : RequestResultsDecryption(s, id)
    \/ \E s \in Addresses, id \in VoteIds, ok \in BOOLEAN :
          \E cc \in ClearCountsInputs(id) : PublishResults(s, id, cc, ok)

Fairness ==
    /\ WF_vars(Tick)
    /\ \A id \in VoteIds :
           /\ WF_vars(\E s \in Addresses : RequestResultsDecryption(s, id))
           /\ WF_vars(\E s \in Addresses, ok \in BOOLEAN :
                         \E cc \in ClearCountsInputs(id) : PublishResults(s, id, cc, ok))

SpecLive == Init /\ [][NextLive]_vars /\ Fairness

\* ===================================================================== claims
Existing == 1..voteCount
\* the plain values of the accumulators of poll id
PlainCounts(id) ==
    [i \in 1..Len(votes[id].encryptedCounts) |-> Decrypt(votes[id].encryptedCounts[i])]
\* the number of accepted ballots on poll id whose plain choice is c
BallotsFor(id, c) ==
    Cardinality({<<a, k>> \in Addresses \X (1..Cardinality(Addresses) + 1) :
                    k <= Len(CastOf(id, a)) /\ CastOf(id, a)[k] = c})
\* the number of accepted ballots of voter a on poll id
Accepted(id, a) == Len(CastOf(id, a))
InWindow(id) == votes[id].startTime <= now /\ now <= votes[id].endTime

\* the state part of C1
C1_MarkedOnce ==
    \A id \in Existing : \A a \in Addresses :
        /\ Accepted(id, a) <= 1
        /\ (<<id, a>> \in hasVoted) <=> (Accepted(id, a) = 1)
        /\ <<id, a>> \in hasVoted =>
               \A ok \in BOOLEAN : castVoteError(id, a, ok) # "ok"
\* the step part of C1
C1_Step ==
    /\ hasVoted \subseteq hasVoted'
    /\ \A id \in Existing :
          votes'[id].encryptedCounts # votes[id].encryptedCounts =>
              \A a \in Addresses, c \in Choices, ok \in BOOLEAN :
                  castVoteError(id, a, ok) # "ok" => ~CastVote(a, id, c, ok)
\* C1: for each (poll, voter) at most one castVote is accepted: the marker, once
\* set, is never cleared; a marked voter's castVote is rejected whatever its input;
\* and a rejected castVote leaves the poll's accumulators as they were.
C1_AtMostOneBallot == [](C1_MarkedOnce) /\ [][C1_Step]_vars
\* a marked voter on a poll whose window is still open
C1_Witness ==
    \E id \in Existing : \E a \in Addresses :
        <<id, a>> \in hasVoted /\ InWindow(id) /\ castVoteError(id, a, TRUE) = "AlreadyVoted"

\* C2: for every poll and option index i, the plain value of accumulator i is the
\* number of accepted ballots on that poll whose plain choice is i.
C2_TallyCorrect ==
    \A id \in Existing :
        /\ Len(votes[id].encryptedCounts) = Len(votes[id].options)
        /\ \A i \in 1..Len(votes[id].options) : PlainCounts(id)[i] = BallotsFor(id, i - 1)
\* two ballots accepted on a poll of four options: one for its first option,
\* one for its last
C2_Witness ==
    \E id \in Existing :
        /\ Len(votes[id].options) = MaxOptions
        /\ PlainCounts(id) = <<1, 0, 0, 1>>

\* C3 as stated: a marked voter's castVote always fails with AlreadyVoted.
C3_AlwaysAlreadyVoted ==
    \A id \in Existing : \A a \in Addresses :
        <<id, a>> \in hasVoted =>
            \A ok \in BOOLEAN : castVoteError(id, a, ok) = "AlreadyVoted"

\* the state part of C3
C3_Rejection ==
    \A id \in Existing : \A a \in Addresses :
        <<id, a>> \in hasVoted =>
            \A ok \in BOOLEAN :
                castVoteError(id, a, ok) =
                    IF now <= votes[id].endTime THEN "AlreadyVoted" ELSE "VotingEnded"
\* the step part of C3
C3_Step ==
    \A id \in Existing :
        PlainCounts(id)' # PlainCounts(id) =>
            \A a \in Addresses :
                <<id, a>> \in hasVoted =>
                    \A c \in Choices, ok \in BOOLEAN : ~CastVote(a, id, c, ok)
\* C3, amended: a marked voter's castVote fails with AlreadyVoted while the window
\* is open (now <= endTime) and with VotingEnded once it is over, whatever the
\* input; it is never accepted and never fails otherwise; the tally is unchanged.
C3_MarkedVoterRejected == [](C3_Rejection) /\ [][C3_Step]_vars
\* a marked voter after the end of the window: the attempt fails with VotingEnded
C3_Witness ==
    \E id \in Existing : \E a \in Addresses :
        /\ <<id, a>> \in hasVoted
        /\ now > votes[id].endTime
        /\ castVoteError(id, a, TRUE) = "VotingEnded"

\* the state part of C4
C4_Window ==
    \A id \in Existing : \A a \in Addresses :
        /\ now < votes[id].startTime =>
               \A ok \in BOOLEAN : castVoteError(id, a, ok) = "VotingNotStarted"
        /\ now > votes[id].endTime =>
               \A ok \in BOOLEAN : castVoteError(id, a, ok) = "VotingEnded"
        /\ <<id, a>> \notin hasVoted =>
               ((castVoteError(id, a, TRUE) = "ok") <=> InWindow(id))
\* the step part of C4
C4_Step ==
    \A id \in Existing :
        (\E a \in Addresses : <<id, a>> \in hasVoted' \ hasVoted) => InWindow(id)
\* C4: on every existing poll castVote fails with VotingNotStarted when
\* now < startTime and with VotingEnded when now > endTime, whoever calls and
\* whatever the input; a castVote by an unmarked voter with a valid encrypted input
\* is accepted exactly when startTime <= now <= endTime, both endpoints included;
\* and a ballot is recorded only in a step taken inside the window.  This holds for
\* polls created with startTime in the past as for the others.
C4_VotingWindow == [](C4_Window) /\ [][C4_Step]_vars
\* a poll created with its startTime in the past, at now = endTime: one voter has
\* voted and the other is still accepted
C4_Witness ==
    \E id \in Existing : \E a, b \in Addresses :
        /\ votes[id].startTime < createdAt[id]
        /\ now = votes[id].endTime
        /\ <<id, a>> \in hasVoted
        /\ <<id, b>> \notin hasVoted
        /\ castVoteError(id, b, TRUE) = "ok"

\* the state part of C5
C5_Outcome ==
    \A id \in Existing :
        /\ now <= votes[id].endTime =>
               /\ requestResultsDecryptionError(id) = "VotingStillActive"
               /\ ~votes[id].decryptionRequested
        /\ (now > votes[id].endTime /\ ~votes[id].decryptionRequested) =>
               requestResultsDecryptionError(id) = "ok"
        /\ votes[id].decryptionRequested =>
               requestResultsDecryptionError(id) = "DecryptionAlreadyRequested"
\* the step part of C5
C5_Step ==
    \A id \in Existing :
        /\ (requestResultsDecryptionError(id) = "ok"
               /\ \E s \in Addresses : RequestResultsDecryption(s, id))
              => votes'[id].decryptionRequested
        /\ (~votes[id].decryptionRequested /\ votes'[id].decryptionRequested)
              => (now > votes[id].endTime /\ requestResultsDecryptionError(id) = "ok")
\* C5: on every existing poll requestResultsDecryption fails with VotingStillActive
\* whenever now <= endTime, and the flag is then false; at now > endTime with the
\* flag false it succeeds and sets the flag; with the flag set it fails with
\* DecryptionAlreadyRequested.
C5_RequestDecryption == [](C5_Outcome) /\ [][C5_Step]_vars
\* decryption requested at endTime + 1
C5_Witness ==
    \E id \in Existing :
        /\ votes[id].decryptionRequested
        /\ now = votes[id].endTime + 1
        /\ requestResultsDecryptionError(id) = "DecryptionAlreadyRequested"

\* the state part of C6
C6_Flags ==
    \A id \in Existing :
        /\ votes[id].resultsPublished => votes[id].decryptionRequested
        /\ votes[id].decryptionRequested => now > votes[id].endTime
\* the step part of C6
C6_Step ==
    \A id \in Existing :
        /\ votes[id].decryptionRequested => votes'[id].decryptionRequested
        /\ votes[id].resultsPublished => votes'[id].resultsPublished
\* C6: for every poll resultsPublished implies decryptionRequested, and
\* decryptionRequested implies now > endTime; a flag that is true stays true.
C6_FlagOrder == [](C6_Flags) /\ [][C6_Step]_vars
\* a published poll, some time after its results were requested
C6_Witness ==
    \E id \in Existing :
        /\ votes[id].resultsPublished
        /\ votes[id].decryptionRequested
        /\ now > votes[id].endTime + 1

\* the state part of C7
C7_Closed ==
    \A id \in Existing :
        votes[id].decryptionRequested =>
            \A a \in Addresses, ok \in BOOLEAN : castVoteError(id, a, ok) # "ok"
\* the step part of C7
C7_Step ==
    \A id \in Existing :
        /\ Len(votes'[id].encryptedCounts) = Len(votes[id].encryptedCounts)
        /\ \A i \in 1..Len(votes[id].encryptedCounts) :
               PlainCounts(id)'[i] >= PlainCounts(id)[i]
        /\ votes'[id].encryptedCounts # votes[id].encryptedCounts =>
               /\ InWindow(id)
               /\ ~votes[id].decryptionRequested
               /\ \E a \in Addresses, c \in Choices :
                      castVoteError(id, a, TRUE) = "ok" /\ CastVote(a, id, c, TRUE)
\* C7: the accumulators of a poll change only in the step of an accepted castVote,
\* taken inside the window and before decryption is requested; no accumulator
\* ever decreases; once decryptionRequested is true no castVote is accepted and
\* the accumulators stay as they are.
C7_AccumulatorsFrozen == [](C7_Closed) /\ [][C7_Step]_vars
\* decryption requested on a poll that holds ballots
C7_Witness ==
    \E id \in Existing :
        /\ votes[id].decryptionRequested
        /\ \E i \in 1..Len(votes[id].encryptedCounts) : PlainCounts(id)[i] = 2

\* the state part of C8
C8_Again ==
    \A id \in Existing :
        votes[id].resultsPublished =>
            \A cc \in ClearCountsInputs(id), ok \in BOOLEAN :
                publishResultsError(id, cc, ok) = "ResultsAlreadyPublished"
\* the step part of C8
C8_Step ==
    \A id \in Existing :
        /\ votes[id].resultsPublished =>
               /\ votes'[id].resultsPublished
               /\ votes'[id].publicResults = votes[id].publicResults
        /\ votes'[id].publicResults # votes[id].publicResults =>
               /\ ~votes[id].resultsPublished
               /\ votes'[id].resultsPublished
\* C8: once a poll is published every publishResults on it fails with
\* ResultsAlreadyPublished, whatever the counts and the proof; the stored result
\* is written only by a step from an unpublished state and never changes after.
C8_PublishOnce == [](C8_Again) /\ [][C8_Step]_vars
\* a published poll with a ballot counted in its result
C8_Witness ==
    \E id \in Existing :
        /\ votes[id].resultsPublished
        /\ \E i \in 1..Len(votes[id].publicResults) : votes[id].publicResults[i] = 1

\* per option index of poll id, the number of accepted ballots for it
TrueTally(id) == [i \in 1..Len(votes[id].options) |-> BallotsFor(id, i - 1)]
\* C9: given that FHE.checkSignatures accepts only the true decryptions of the
\* handles, the published result of a poll is, for each option index, the number
\* of accepted ballots for that index; and no publishResults call carrying another
\* array is accepted.
C9_PublishedIsTally ==
    \A id \in Existing :
        /\ votes[id].resultsPublished => votes[id].publicResults = TrueTally(id)
        /\ \A cc \in ClearCountsInputs(id), ok \in BOOLEAN :
               publishResultsError(id, cc, ok) = "ok" => cc = TrueTally(id)
\* the published result of a poll with two ballots for option 0 and none else
C9_Witness ==
    \E id \in Existing :
        /\ votes[id].resultsPublished
        /\ votes[id].publicResults = <<2, 0, 0>>
        /\ BallotsFor(id, 0) = 2

\* C10: on an existing poll whose decryptionRequested is false, publishResults
\* fails with ResultsNotReady whatever the counts and the proof, resultsPublished
\* is false and no result is stored.
C10_NotReady ==
    \A id \in Existing :
        ~votes[id].decryptionRequested =>
            /\ \A cc \in ClearCountsInputs(id), ok \in BOOLEAN :
                   publishResultsError(id, cc, ok) = "ResultsNotReady"
            /\ ~votes[id].resultsPublished
            /\ votes[id].publicResults = <<>>
\* a closed poll with a ballot, decryption not yet requested: publishing the true
\* counts with a valid proof fails
C10_Witness ==
    \E id \in Existing :
        /\ ~votes[id].decryptionRequested
        /\ now > votes[id].endTime
        /\ \E a \in Addresses : <<id, a>> \in hasVoted
        /\ publishResultsError(id, PlainCounts(id), TRUE) = "ResultsNotReady"

\* the first precondition of publishResults that fails, in the order poll exists,
\* decryptionRequested, not resultsPublished, length of clearCounts; "none" when
\* all four hold
FirstPublishFailure(id, cc) ==
    IF id = 0 \/ id > voteCount THEN "VoteNotFound"
    ELSE IF ~votes[id].decryptionRequested THEN "ResultsNotReady"
    ELSE IF votes[id].resultsPublished THEN "ResultsAlreadyPublished"
    ELSE IF Len(cc) # Len(votes[id].options) THEN "InvalidResultsLength"
    ELSE "none"
\* the state part of C11
C11_Order ==
    \A id \in VoteIds : \A cc \in ClearCountsInputs(id), ok \in BOOLEAN :
        /\ FirstPublishFailure(id, cc) # "none" =>
               publishResultsError(id, cc, ok) = FirstPublishFailure(id, cc)
        /\ FirstPublishFailure(id, cc) = "none" =>
               publishResultsError(id, cc, ok) \in {"ok", "FHE_checkSignatures_revert"}
        /\ (/\ id \in Existing
            /\ votes[id].decryptionRequested
            /\ ~votes[id].resultsPublished
            /\ Len(cc) # Len(votes[id].options)) =>
               publishResultsError(id, cc, ok) = "InvalidResultsLength"
\* the step part of C11
C11_Step ==
    \A id \in Existing :
        votes'[id] # votes[id] =>
            \A cc \in ClearCountsInputs(id) :
                Len(cc) # Len(votes[id].options) =>
                    \A s \in Addresses, ok \in BOOLEAN : ~PublishResults(s, id, cc, ok)
\* C11: publishResults reports the first failing precondition in the order poll
\* exists (VoteNotFound), decryptionRequested (ResultsNotReady), not
\* resultsPublished (ResultsAlreadyPublished), length of clearCounts
\* (InvalidResultsLength), and reaches the proof check only past all four; on a poll
\* with decryption requested and results not published an array of another length
\* than the options fails with InvalidResultsLength whatever the proof, and the call
\* changes no state.
C11_PublishCheckOrder == [](C11_Order) /\ [][C11_Step]_vars
\* decryption requested, results not published: a shorter array with a valid proof
\* fails on its length
C11_Witness ==
    \E id \in Existing :
        /\ votes[id].decryptionRequested
        /\ ~votes[id].resultsPublished
        /\ \E a \in Addresses : <<id, a>> \in hasVoted
        /\ publishResultsError(id, Tail(PlainCounts(id)), TRUE) = "InvalidResultsLength"

\* the custom errors the contract declares
DeclaredErrors ==
    {"VoteNotFound", "InvalidOptionsCount", "InvalidTimeRange", "VotingNotStarted",
     "VotingStillActive", "VotingEnded", "AlreadyVoted", "DecryptionAlreadyRequested",
     "ResultsNotReady", "ResultsAlreadyPublished", "InvalidResultsLength"}
\* a publishResults call on poll id that passes the four preconditions and whose
\* proof does not verify against the stored handles and the claimed counts
ProofFails(id, cc, ok) ==
    /\ id \in Existing
    /\ votes[id].decryptionRequested
    /\ ~votes[id].resultsPublished
    /\ Len(cc) = Len(votes[id].options)
    /\ ~FHE_checkSignatures(Handles(id, Len(cc)), cc, ok)
C12_Fails ==
    \A id \in Existing : \A cc \in ClearCountsInputs(id), ok \in BOOLEAN :
        ProofFails(id, cc, ok) =>
            /\ publishResultsError(id, cc, ok) = "FHE_checkSignatures_revert"
            /\ publishResultsError(id, cc, ok) \notin DeclaredErrors
            /\ votes[id].publicResults = <<>>
            /\ publishResultsError(id, PlainCounts(id), TRUE) = "ok"
\* the step part of C12
C12_Step ==
    \A id \in Existing :
        votes'[id] # votes[id] =>
            \A cc \in ClearCountsInputs(id), ok \in BOOLEAN :
                ProofFails(id, cc, ok) =>
                    \A s \in Addresses : ~PublishResults(s, id, cc, ok)
C13_Read ==
    \A id \in Existing :
        /\ ~votes[id].resultsPublished => getPublicResultsError(id) = "ResultsNotReady"
        /\ votes[id].resultsPublished =>
               /\ getPublicResultsError(id) = "ok"
               /\ Len(getPublicResults(id)) = Len(votes[id].options)
\* the step part of C13
C13_Step ==
    \A id \in Existing :
        /\ (~votes[id].resultsPublished /\ votes'[id].resultsPublished) =>
               \E cc \in ClearCountsInputs(id) :
                   /\ \E s \in Addresses, ok \in BOOLEAN : PublishResults(s, id, cc, ok)
                   /\ publishResultsError(id, cc, TRUE) = "ok"
                   /\ getPublicResults(id)' = cc
        /\ votes[id].resultsPublished =>
               /\ votes'[id].resultsPublished
               /\ getPublicResults(id)' = getPublicResults(id)
\* C13: on an existing poll getPublicResults fails with ResultsNotReady in every
\* state where resultsPublished is false, also after requestResultsDecryption; where
\* resultsPublished is true it returns the clearCounts of the one successful
\* publishResults call, unchanged ever after, one count per option.
C13_GetPublicResults == [](C13_Read) /\ [][C13_Step]_vars
\* results published after a ballot: the read succeeds and returns a count of 1
C13_Witness ==
    \E id \in Existing :
        /\ votes[id].resultsPublished
        /\ getPublicResultsError(id) = "ok"
        /\ \E i \in 1..Len(getPublicResults(id)) : getPublicResults(id)[i] = 1
        /\ Len(getPublicResults(id)) = Len(votes[id].options)

\* the state part of C14
C14_Errors ==
    \A o \in OptionLists, st \in Times, et \in Times :
        /\ (Len(o) < 2 \/ Len(o) > 4) => createVoteError(o, st, et) = "InvalidOptionsCount"
        /\ (Len(o) \in 2..4 /\ (et <= st \/ et <= now)) =>
               createVoteError(o, st, et) = "InvalidTimeRange"
        /\ (Len(o) \in 2..4 /\ et > st /\ et > now) => createVoteError(o, st, et) = "ok"
\* the step part of C14
C14_Step ==
    (voteCount' # voteCount \/ Len(votes') # Len(votes)) =>
        /\ voteCount' = voteCount + 1
        /\ Len(votes') = Len(votes) + 1
        /\ \A s \in Addresses, t \in Titles, o \in OptionLists, st \in Times, et \in Times :
               createVoteError(o, st, et) # "ok" => ~CreateVote(s, t, o, st, et)
        /\ \E s \in Addresses, t \in Titles, o \in OptionLists, st \in Times, et \in Times :
               /\ Len(o) \in 2..4 /\ et > st /\ et > now
               /\ CreateVote(s, t, o, st, et)
\* C14: createVote fails with InvalidOptionsCount whenever options.length is
\* outside [2,4] (0, 1 or 5), whatever the times; with 2 to 4 options it fails with
\* InvalidTimeRange whenever endTime <= startTime or endTime <= block.timestamp; a
\* failing call stores no poll and leaves the poll count unchanged; every other call
\* succeeds and stores one poll.
C14_CreateVoteErrors == [](C14_Errors) /\ [][C14_Step]_vars
\* a poll has been created; five options with good times fail on the count, two
\* options with endTime = startTime fail on the times
C14_Witness ==
    /\ voteCount = 1
    /\ now < MaxTime
    /\ createVoteError(SubSeq(AllLabels, 1, 5), now, MaxTime) = "InvalidOptionsCount"
    /\ createVoteError(SubSeq(AllLabels, 1, 5), MaxTime, 0) = "InvalidOptionsCount"
    /\ createVoteError(SubSeq(AllLabels, 1, 2), MaxTime, MaxTime) = "InvalidTimeRange"
    /\ createVoteError(SubSeq(AllLabels, 1, 2), 0, now) = "InvalidTimeRange"

\* the statement of C15 as claimed: every poll has startTime > 0
C15_StartPositive ==
    \A id \in Existing :
        /\ Len(votes[id].options) \in 2..4
        /\ votes[id].endTime > votes[id].startTime
        /\ votes[id].startTime > 0
        /\ votes[id].endTime > createdAt[id]
\* C15 (amended): every poll in a reachable state has 2 to 4 options, one
\* accumulator per option, endTime > startTime >= 0 (createVote accepts
\* startTime = 0), and an endTime strictly greater than block.timestamp at its
\* creation.
C15_PollWellFormed ==
    \A id \in Existing :
        /\ Len(votes[id].options) \in 2..4
        /\ Len(votes[id].encryptedCounts) = Len(votes[id].options)
        /\ votes[id].endTime > votes[id].startTime
        /\ votes[id].startTime >= 0
        /\ votes[id].endTime > createdAt[id]
\* a poll created with startTime = 0 at a later time that has since passed its end
C15_Witness ==
    \E id \in Existing :
        /\ votes[id].startTime = 0
        /\ createdAt[id] > 0
        /\ votes[id].endTime = createdAt[id] + 1
        /\ now > votes[id].endTime

\* the fields of a poll that createVote writes and nothing changes afterwards
Identity(v) == <<v.title, v.options, v.startTime, v.endTime, v.creator>>
\* the state part of C16: createdAt has one entry per successful createVote
C16_Dense ==
    /\ getVoteCount = Len(createdAt)
    /\ Len(votes) = getVoteCount
    /\ \A id \in 1..getVoteCount : getVoteError(id) = "ok"
    /\ createVoteId = Len(createdAt) + 1
\* the step part of C16
C16_Step ==
    /\ getVoteCount' >= getVoteCount
    /\ \A id \in Existing :
           /\ id <= getVoteCount'
           /\ Identity(votes'[id]) = Identity(votes[id])
           /\ createdAt'[id] = createdAt[id]
    /\ getVoteCount' # getVoteCount =>
           /\ getVoteCount' = createVoteId
           /\ Len(createdAt') = Len(createdAt) + 1
           /\ \A s \in PollSenders, t \in Titles, o \in PollOptionLists, et \in Times :
                  createVoteError(o, 0, et) # "ok" => ~CreateVote(s, t, o, 0, et)
    /\ Len(createdAt') # Len(createdAt) => getVoteCount' = getVoteCount + 1
\* C16: poll ids are dense and sequential: the n-th successful createVote assigns
\* and returns id n, the first one 1; a failed createVote consumes no id;
\* getVoteCount equals the number of successful createVote calls so far and never
\* decreases; every id from 1 to getVoteCount names a poll, and no poll is deleted
\* or replaced.
C16_DenseSequentialIds == [](C16_Dense) /\ [][C16_Step]_vars
\* three polls created at different times, after failed attempts were possible
C16_Witness ==
    /\ getVoteCount = 3
    /\ createdAt[1] < createdAt[2]
    /\ createdAt[2] < createdAt[3]
    /\ votes[1].endTime # votes[3].endTime
    /\ createVoteError(SubSeq(AllLabels, 1, 1), 0, MaxTime) = "InvalidOptionsCount"

\* id names no poll
Missing(id) == id = 0 \/ id > getVoteCount
\* the errors of the seven functions that take a poll id, for every other input
IdErrors(id) ==
    {getVoteError(id), getEncryptedCountsError(id), getPublicResultsError(id),
     hasVotedError(id), requestResultsDecryptionError(id)}
    \cup {castVoteError(id, a, ok) : a \in Addresses, ok \in BOOLEAN}
    \cup {publishResultsError(id, cc, ok) : cc \in ClearCountsInputs(id), ok \in BOOLEAN}
\* the state part of C17
C17_NotFound ==
    \A id \in PollIds :
        /\ Missing(id) => IdErrors(id) = {"VoteNotFound"}
        /\ ~Missing(id) => "VoteNotFound" \notin IdErrors(id)
\* the step part of C17
C17_Step ==
    \A id \in PollIds :
        Missing(id) =>
            \A s \in PollSenders, ok \in BOOLEAN :
                /\ CastVote(s, id, 0, ok) => UNCHANGED vars
                /\ RequestResultsDecryption(s, id) => UNCHANGED vars
                /\ \A cc \in ClearCountsInputs(id) :
                       PublishResults(s, id, cc, ok) => UNCHANGED vars
\* C17: getVote, castVote, requestResultsDecryption, publishResults,
\* getEncryptedCounts, getPublicResults and hasVoted fail with VoteNotFound exactly
\* when the id is 0 or greater than getVoteCount, whatever their other inputs (the
\* check comes first), and the failing call changes no state; for every id from 1
\* to getVoteCount none of them fails with VoteNotFound.
C17_VoteNotFound == [](C17_NotFound) /\ [][C17_Step]_vars
\* two polls: ids 1 and 2 pass the check, ids 0 and 3 fail it
C17_Witness ==
    /\ getVoteCount = 2
    /\ getVoteError(0) = "VoteNotFound"
    /\ getVoteError(1) = "ok"
    /\ getVoteError(2) = "ok"
    /\ castVoteError(3, "alice", TRUE) = "VoteNotFound"
    /\ \E id \in Existing : votes[id].decryptionRequested

\* the state part of C18
C18_Whole ==
    \A id \in Existing :
        /\ PlainCounts(id) = TrueTally(id)
        /\ \A a \in Addresses :
               /\ castVoteError(id, a, FALSE) # "ok"
               /\ (<<id, a>> \in hasVoted) <=> (Accepted(id, a) = 1)
               /\ (InWindow(id) /\ <<id, a>> \notin hasVoted) =>
                      /\ castVoteError(id, a, FALSE) = "FHE_fromExternal_revert"
                      /\ castVoteError(id, a, TRUE) = "ok"
\* the step part of C18
C18_Step ==
    /\ vars' # vars =>
           \A a \in Addresses, id \in VoteIds, c \in Choices : ~CastVote(a, id, c, FALSE)
    /\ \A id \in Existing : \A a \in Addresses :
           (<<id, a>> \in hasVoted' /\ <<id, a>> \notin hasVoted) =>
               \E c \in Choices :
                   votes'[id].encryptedCounts =
                       Increment(votes[id].encryptedCounts, c, Len(votes[id].options))
\* C18: castVote is all-or-nothing: a call whose input fails FHE.fromExternal is
\* rejected, changes no accumulator and leaves the (poll, voter) marker unset
\* although the marker is written before the input is validated, so the voter can
\* still cast a valid ballot in the window; a voter is marked for a poll only with
\* the increment of that ballot applied to all accumulators of the poll.
C18_AllOrNothing == [](C18_Whole) /\ [][C18_Step]_vars
\* an open poll where bob has voted for option 1 and alice, unmarked, is rejected
\* with an invalid input and accepted with a valid one
C18_Witness ==
    \E id \in Existing :
        /\ InWindow(id)
        /\ <<id, "bob">> \in hasVoted
        /\ PlainCounts(id)[2] = 1
        /\ <<id, "alice">> \notin hasVoted
        /\ castVoteError(id, "alice", FALSE) = "FHE_fromExternal_revert"
        /\ castVoteError(id, "alice", TRUE) = "ok"

\* C19: castVote reports the first failing precondition in the order VoteNotFound,
\* VotingNotStarted, VotingEnded, AlreadyVoted: a nonexistent poll yields
\* VoteNotFound; block.timestamp < startTime yields VotingNotStarted and
\* block.timestamp > endTime yields VotingEnded, for a marked voter too; AlreadyVoted
\* is reported only inside the window; only an unmarked voter inside the window
\* reaches the validation of the input.
C19_CastVoteCheckOrder ==
    \A id \in VoteIds : \A a \in Addresses, ok \in BOOLEAN :
        /\ Missing(id) => castVoteError(id, a, ok) = "VoteNotFound"
        /\ (~Missing(id) /\ now < votes[id].startTime) =>
               castVoteError(id, a, ok) = "VotingNotStarted"
        /\ (~Missing(id) /\ now >= votes[id].startTime /\ now > votes[id].endTime) =>
               castVoteError(id, a, ok) = "VotingEnded"
        /\ (~Missing(id) /\ InWindow(id) /\ <<id, a>> \in hasVoted) =>
               castVoteError(id, a, ok) = "AlreadyVoted"
        /\ (~Missing(id) /\ InWindow(id) /\ <<id, a>> \notin hasVoted) =>
               castVoteError(id, a, ok) \in {"ok", "FHE_fromExternal_revert"}
\* after endTime alice, who voted, gets VotingEnded and not AlreadyVoted; the id
\* after the last one gets VoteNotFound
C19_Witness ==
    \E id \in Existing :
        /\ now > votes[id].endTime
        /\ <<id, "alice">> \in hasVoted
        /\ <<id, "bob">> \notin hasVoted
        /\ castVoteError(id, "alice", TRUE) = "VotingEnded"
        /\ castVoteError(id + 1, "alice", TRUE) = "VoteNotFound"

\* the phase of poll id from block.timestamp and the two flags: 0 Scheduled, 1 Open,
\* 2 Closed, 3 DecryptionRequested, 4 Published
Phase(id) ==
    IF votes[id].resultsPublished THEN 4
    ELSE IF votes[id].decryptionRequested THEN 3
    ELSE IF now < votes[id].startTime THEN 0
    ELSE IF now <= votes[id].endTime THEN 1
    ELSE 2
\* the step part of C20
C20_Step ==
    \A id \in Existing :
        /\ Phase(id)' >= Phase(id)
        /\ (Phase(id)' = 3 /\ Phase(id) # 3) =>
               /\ Phase(id) = 2
               /\ requestResultsDecryptionError(id) = "ok"
               /\ \E s \in Addresses : RequestResultsDecryption(s, id)
        /\ (Phase(id)' = 4 /\ Phase(id) # 4) =>
               /\ Phase(id) = 3
               /\ \E s \in Addresses, ok \in BOOLEAN : \E cc \in ClearCountsInputs(id) :
                      /\ publishResultsError(id, cc, ok) = "ok"
                      /\ PublishResults(s, id, cc, ok)
        /\ Phase(id) = 4 => Phase(id)' = 4
\* the state part of C20: the flags agree with the order of the phases
C20_Flags ==
    \A id \in Existing :
        /\ votes[id].resultsPublished => votes[id].decryptionRequested
        /\ votes[id].decryptionRequested => now > votes[id].endTime
\* C20: the phase of a poll, Scheduled (now < startTime), Open (startTime <= now <=
\* endTime), Closed (now > endTime, decryption not requested), DecryptionRequested,
\* Published, never moves backwards while block.timestamp does not decrease;
\* DecryptionRequested is entered only from Closed and only by
\* requestResultsDecryption, Published only from DecryptionRequested and only by
\* publishResults, and Published is never left.
C20_PhaseMonotone == [](C20_Flags) /\ [][C20_Step]_vars
\* a poll created before its start that went through every phase to Published
C20_Witness ==
    \E id \in Existing :
        /\ Phase(id) = 4
        /\ createdAt[id] < votes[id].startTime
        /\ \E a \in Addresses : <<id, a>> \in hasVoted

\* the current accumulator handles of poll id
CountHandles(id) ==
    {votes[id].countHandles[i] : i \in 1..Len(votes[id].countHandles)}
Public ==
    [now |-> now, voteCount |-> getVoteCount, hasVoted |-> hasVoted,
     polls |-> [id \in 1..getVoteCount |-> getVote(id)]]
\* the outcome of castVote computed from the public state P alone
PubCastVoteError(P, id, a, ok) ==
    IF id = 0 \/ id > P.voteCount THEN "VoteNotFound"
    ELSE IF P.now < P.polls[id].startTime THEN "VotingNotStarted"
    ELSE IF P.now > P.polls[id].endTime THEN "VotingEnded"
    ELSE IF <<id, a>> \in P.hasVoted THEN "AlreadyVoted"
    ELSE IF ~ok THEN "FHE_fromExternal_revert"
    ELSE "ok"
\* the public state after castVote(id, ...) by a, computed from P alone
PubAfterCast(P, id, a, ok) ==
    IF PubCastVoteError(P, id, a, ok) = "ok"
    THEN [P EXCEPT !.hasVoted = @ \cup {<<id, a>>}]
    ELSE P
\* the events of castVote(id, ...) by a, computed from P alone
PubCastVoteEvents(P, id, a, ok) ==
    IF PubCastVoteError(P, id, a, ok) = "ok"
    THEN <<[name |-> "VoteCast", voteId |-> id, voter |-> a]>>
    ELSE <<>>
\* the outcome of requestResultsDecryption computed from P alone
PubRequestError(P, id) ==
    IF id = 0 \/ id > P.voteCount THEN "VoteNotFound"
    ELSE IF P.now <= P.polls[id].endTime THEN "VotingStillActive"
    ELSE IF P.polls[id].decryptionRequested THEN "DecryptionAlreadyRequested"
    ELSE "ok"
PubAfterRequest(P, id) ==
    IF PubRequestError(P, id) = "ok"
    THEN [P EXCEPT !.polls[id].decryptionRequested = TRUE]
    ELSE P
\* C22: two executions that differ only in the plain choices of the ballots show
\* the same public state and the same events up to publication: in every reachable
\* state the outcome of castVote, its events (VoteCast carries the poll id and the
\* voter only) and the public state after it are those computed from the public
\* state, the caller, the poll id and the validity of the input, whatever the
\* choice; and the outcome and effect of requestResultsDecryption are computed from
\* the public state too.
C22_ChoiceNotObservable ==
    /\ \A id \in VoteIds, a \in Addresses, ok \in BOOLEAN :
           /\ castVoteError(id, a, ok) = PubCastVoteError(Public, id, a, ok)
           /\ castVoteEvents(id, a, ok) = PubCastVoteEvents(Public, id, a, ok)
           /\ \A e \in {castVoteEvents(id, a, ok)[k] : k \in 1..Len(castVoteEvents(id, a, ok))} :
                  DOMAIN e = {"name", "voteId", "voter"}
           /\ \A c \in Choices :
                  ENABLED (CastVote(a, id, c, ok) /\ Public' = PubAfterCast(Public, id, a, ok))
    /\ \A id \in VoteIds :
           /\ requestResultsDecryptionError(id) = PubRequestError(Public, id)
           /\ \A a \in Addresses :
                  ENABLED (RequestResultsDecryption(a, id)
                           /\ Public' = PubAfterRequest(Public, id))
\* an open poll where alice has not voted: whichever option she chooses, or none,
\* the public state after her ballot is the same
C22_Witness ==
    \E id \in Existing :
        /\ castVoteError(id, "alice", TRUE) = "ok"
        /\ <<id, "bob">> \in hasVoted
        /\ PubAfterCast(Public, id, "alice", TRUE) # Public
        /\ \A c \in Choices :
               ENABLED (CastVote("alice", id, c, TRUE)
                        /\ Public' = PubAfterCast(Public, id, "alice", TRUE))

\* the handle castVote by a with choice c writes to accumulator i (from 1) of poll id
WrittenHandle(id, a, c, i) ==
    H_add(votes[id].countHandles[i],
          H_select(H_eq(H_input(a, c), H_trivialEncrypt(i - 1)),
                   H_trivialEncrypt(1), H_trivialEncrypt(0)))
C24_AnyCaller ==
    \A id \in VoteIds : \A s \in Addresses :
        /\ requestResultsDecryptionError(id) = "ok" =>
               ENABLED (RequestResultsDecryption(s, id) /\ votes'[id].decryptionRequested)
        /\ requestResultsDecryptionError(id) # "ok" =>
               ENABLED (RequestResultsDecryption(s, id) /\ UNCHANGED vars)
        /\ \A cc \in ClearCountsInputs(id), ok \in BOOLEAN :
               /\ publishResultsError(id, cc, ok) = "ok" =>
                      ENABLED (PublishResults(s, id, cc, ok) /\ votes'[id].publicResults = cc)
               /\ publishResultsError(id, cc, ok) # "ok" =>
                      ENABLED (PublishResults(s, id, cc, ok) /\ UNCHANGED vars)
\* the step part of C24: a step of one caller is the same step of every caller
C24_Step ==
    \A id \in Existing :
        /\ (votes'[id].decryptionRequested /\ ~votes[id].decryptionRequested) =>
               \A s \in Addresses : RequestResultsDecryption(s, id)
        /\ (votes'[id].resultsPublished /\ ~votes[id].resultsPublished) =>
               \E cc \in ClearCountsInputs(id) :
                   \A s \in Addresses : PublishResults(s, id, cc, TRUE)
\* C24: requestResultsDecryption and publishResults are permissionless: whether
\* the call succeeds, the error it reverts with and the state it leaves are the
\* same for every caller; a caller other than the creator of the poll can request
\* the decryption and publish.
C24_Permissionless == [](C24_AnyCaller) /\ [][C24_Step]_vars
\* alice's poll is closed and bob can request the decryption
C24_Witness ==
    \E id \in Existing :
        /\ votes[id].creator = "alice"
        /\ \E a \in Addresses : <<id, a>> \in hasVoted
        /\ requestResultsDecryptionError(id) = "ok"
        /\ ENABLED (RequestResultsDecryption("bob", id) /\ votes'[id].decryptionRequested)

\* C25: right after a successful createVote the new poll, under the id the call
\* returns, has the title, options, startTime and endTime of the call, the caller
\* as creator, both flags false, no public results, one accumulator per option,
\* each an encryption of zero, and hasVoted false for every voter.
C25_FreshPoll ==
    \A s \in Addresses, t \in Titles, o \in OptionLists, st \in Times, et \in Times :
        createVoteError(o, st, et) = "ok" =>
            \A id \in {createVoteId} :
                ENABLED (/\ CreateVote(s, t, o, st, et)
                         /\ getVoteCount' = id
                         /\ getVoteError(id)' = "ok"
                         /\ getVote(id)' =
                                [title |-> t, options |-> o, startTime |-> st,
                                 endTime |-> et, creator |-> s,
                                 decryptionRequested |-> FALSE,
                                 resultsPublished |-> FALSE]
                         /\ getPublicResultsError(id)' = "ResultsNotReady"
                         /\ votes'[id].publicResults = <<>>
                         /\ Len(getEncryptedCounts(id)') = Len(o)
                         /\ \A i \in 1..Len(o) : Decrypt(getEncryptedCounts(id)'[i]) = 0
                         /\ \A a \in Addresses : ~hasVotedView(id, a)')
\* a poll with three options right after its creation at a time later than 0
C25_Witness ==
    /\ voteCount = 1
    /\ createdAt[1] = now
    /\ now > 0
    /\ Len(votes[1].options) = 3
    /\ votes[1].creator = "bob"
    /\ PlainCounts(1) = <<0, 0, 0>>
    /\ hasVoted = {}

\* C26: hasVoted(voteId, voter) on an existing poll returns true if and only if a
\* castVote of that voter on that poll succeeded earlier (false before), and
\* hasVoted, getVote, getVoteCount, getEncryptedCounts and getPublicResults leave
\* every state as it is.
C26_HasVotedRead ==
    /\ \A id \in Existing : \A a \in Addresses :
           /\ hasVotedError(id) = "ok"
           /\ hasVotedView(id, a) <=> Accepted(id, a) >= 1
           /\ createdAt[id] = now /\ Accepted(id, a) = 0 => ~hasVotedView(id, a)
    /\ ~ENABLED (Call_getVoteCount /\ vars' # vars)
    /\ \A id \in VoteIds :
           /\ ~ENABLED (Call_getVote(id) /\ vars' # vars)
           /\ ~ENABLED (Call_getEncryptedCounts(id) /\ vars' # vars)
           /\ ~ENABLED (Call_getPublicResults(id) /\ vars' # vars)
           /\ \A a \in Addresses : ~ENABLED (Call_hasVoted(id, a) /\ vars' # vars)
\* bob voted and alice did not: hasVoted tells them apart
C26_Witness ==
    \E id \in Existing :
        /\ hasVotedView(id, "bob")
        /\ ~hasVotedView(id, "alice")
        /\ Accepted(id, "bob") = 1
        /\ now > votes[id].endTime

RECURSIVE SumSeq(_)
SumSeq(q) == IF q = <<>> THEN 0 ELSE Head(q) + SumSeq(Tail(q))
\* the voters marked for poll id
Marked(id) == {a \in Addresses : <<id, a>> \in hasVoted}
\* C27: for every poll the sum of the plain values of the accumulators is at most
\* the number of voters marked for the poll, and equal to it exactly when every
\* accepted ballot named an option; a ballot whose choice is >= options.length is
\* accepted, marks the voter, who is rejected from then on, and increments no
\* accumulator.
C27_SumAtMostMarked ==
    \A id \in Existing :
        /\ SumSeq(PlainCounts(id)) <= Cardinality(Marked(id))
        /\ SumSeq(PlainCounts(id)) = Cardinality(Marked(id)) <=>
               \A a \in Marked(id) : CastOf(id, a)[1] < Len(votes[id].options)
        /\ \A a \in Addresses, c \in Choices :
               (c >= Len(votes[id].options) /\ castVoteError(id, a, TRUE) = "ok") =>
                   ENABLED (/\ CastVote(a, id, c, TRUE)
                            /\ <<id, a>> \in hasVoted'
                            /\ votes'[id].encryptedCounts = votes[id].encryptedCounts
                            /\ \A ok \in BOOLEAN : castVoteError(id, a, ok)' = "AlreadyVoted")
\* both voters are marked on a poll with two options, one ballot named option 1
\* and the other no option: the accumulators sum to 1
C27_Witness ==
    \E id \in Existing :
        /\ Len(votes[id].options) = 2
        /\ Marked(id) = Addresses
        /\ PlainCounts(id) = <<0, 1>>
        /\ \E a \in Addresses : CastOf(id, a)[1] >= 2

\* everything the contract stores about poll id: the Vote and the markers
PollState(id) == <<votes[id], {a \in Addresses : <<id, a>> \in hasVoted}>>
\* the state part of C28: no call on poll p can change another poll q
C28_OtherPollsUntouched ==
    \A q \in Existing :
        /\ \A p \in PollIds \ {q} : \A s \in PollSenders, ok \in BOOLEAN :
               /\ \A c \in Choices :
                      ~ENABLED (CastVote(s, p, c, ok) /\ PollState(q)' # PollState(q))
               /\ ~ENABLED (RequestResultsDecryption(s, p) /\ PollState(q)' # PollState(q))
               /\ \A cc \in ClearCountsInputs(p) :
                      ~ENABLED (PublishResults(s, p, cc, ok) /\ PollState(q)' # PollState(q))
        /\ \A s \in PollSenders, t \in Titles, o \in PollOptionLists, et \in Times :
               ~ENABLED (CreateVote(s, t, o, 0, et) /\ PollState(q)' # PollState(q))
\* the step part of C28: a step changes at most one poll
C28_Step ==
    \A q \in Existing :
        PollState(q)' # PollState(q) =>
            /\ voteCount' = voteCount
            /\ \A p \in Existing \ {q} : PollState(p)' = PollState(p)
\* C28: polls are isolated: castVote, requestResultsDecryption and publishResults
\* on poll p, successful or not, leave the flags, accumulators, public results and
\* markers of every other poll unchanged, and createVote changes nothing about an
\* existing poll; a voter marked on poll p is not thereby marked on another poll.
C28_PollsIsolated == [](C28_OtherPollsUntouched) /\ [][C28_Step]_vars
\* alice voted on poll 1, whose results are published, and can still vote on the
\* untouched poll 2
C28_Witness ==
    /\ voteCount >= 2
    /\ <<1, "alice">> \in hasVoted
    /\ votes[1].resultsPublished
    /\ <<2, "alice">> \notin hasVoted
    /\ ~votes[2].decryptionRequested
    /\ PlainCounts(2) = <<0, 0>>
    /\ castVoteError(2, "alice", TRUE) = "ok"

\* the state part of C29
C29_OneCountPerOption ==
    \A id \in Existing :
        /\ Len(getEncryptedCounts(id)) = Len(votes[id].options)
        /\ Len(votes[id].countHandles) = Len(votes[id].options)
        /\ Handles(id, Len(votes[id].options)) = getEncryptedCounts(id)
        /\ votes[id].resultsPublished =>
               Len(getPublicResults(id)) = Len(getEncryptedCounts(id))
\* the step part of C29
C29_Step ==
    \A id \in Existing :
        /\ votes'[id].title = votes[id].title
        /\ votes'[id].options = votes[id].options
        /\ votes'[id].startTime = votes[id].startTime
        /\ votes'[id].endTime = votes[id].endTime
        /\ votes'[id].creator = votes[id].creator
        /\ Len(votes'[id].encryptedCounts) = Len(votes[id].encryptedCounts)
\* C29: after its creation no operation changes the title, options, startTime,
\* endTime or creator of a poll, and in every reachable state a poll has as many
\* accumulators as options, so the handle array publishResults builds has one entry
\* per accumulator.
C29_PollImmutable == [](C29_OneCountPerOption) /\ [][C29_Step]_vars
\* a poll with four options that was voted on, closed, requested and published
C29_Witness ==
    \E id \in Existing :
        /\ Len(votes[id].options) = 4
        /\ Len(getEncryptedCounts(id)) = 4
        /\ Marked(id) = Addresses
        /\ votes[id].resultsPublished
        /\ votes[id].startTime > createdAt[id]

\* the state part of C30: the next step towards publication succeeds for any caller
C30_NotStuck ==
    \A id \in Existing : \A s \in Addresses :
        /\ (now > votes[id].endTime /\ ~votes[id].decryptionRequested) =>
               /\ requestResultsDecryptionError(id) = "ok"
               /\ ENABLED (RequestResultsDecryption(s, id) /\ votes'[id].decryptionRequested)
        /\ (votes[id].decryptionRequested /\ ~votes[id].resultsPublished) =>
               /\ publishResultsError(id, PlainCounts(id), TRUE) = "ok"
               /\ ENABLED (PublishResults(s, id, PlainCounts(id), TRUE)
                           /\ votes'[id].resultsPublished)
\* the progress part of C30
C30_Published ==
    \A id \in 1..MaxVotes :
        (voteCount >= id) ~> (voteCount >= id /\ votes[id].resultsPublished)
\* C30: no poll gets stuck before publication: once block.timestamp > endTime and
\* decryption is not requested, requestResultsDecryption succeeds for any caller;
\* once decryption is requested and the results are not published, publishResults
\* with the true counts and a valid proof succeeds for any caller; so when time
\* keeps advancing and these two calls are eventually made, every poll reaches
\* resultsPublished.
C30_EventuallyPublished == [](C30_NotStuck) /\ C30_Published
\* a closed poll with one ballot whose decryption bob can request
C30_Witness ==
    \E id \in Existing :
        /\ now > votes[id].endTime
        /\ ~votes[id].decryptionRequested
        /\ Cardinality(Marked(id)) = 1
        /\ ENABLED (RequestResultsDecryption("bob", id) /\ votes'[id].decryptionRequested)

\* the accumulators of poll id after the ballots with choices c1 then c2
CountsAfter(id, c1, c2) ==
    Increment(Increment(votes[id].encryptedCounts, c1, Len(votes[id].options)),
              c2, Len(votes[id].options))
\* castVote by a with choice c is accepted and adds the increment of c to the
\* accumulators of poll id and a to the marked voters; afterwards a is rejected
\* and b is accepted as before
CastApplies(id, a, c, b) ==
    ENABLED (/\ CastVote(a, id, c, TRUE)
             /\ votes'[id].encryptedCounts =
                    Increment(votes[id].encryptedCounts, c, Len(votes[id].options))
             /\ hasVoted' = hasVoted \cup {<<id, a>>}
             /\ castVoteError(id, a, TRUE)' = "AlreadyVoted"
             /\ castVoteError(id, b, TRUE)' = castVoteError(id, b, TRUE))
\* C31: accepted ballots of distinct voters on a poll commute: each accepted ballot
\* adds its increment to the accumulators and its voter to the marked voters and
\* leaves the other voter's ballot acceptable, and the two increments give the same
\* accumulators in either order, so the plain values are the tally of the accepted
\* ballots whatever their order; of two calls of the same voter only the first is
\* accepted (the second fails with AlreadyVoted) and the tally counts only the
\* choice of the first.
C31_BallotsCommute ==
    \A id \in Existing :
        /\ PlainCounts(id) = TrueTally(id)
        /\ \A a \in Marked(id) : Accepted(id, a) = 1
        /\ \A a \in Addresses, b \in Addresses :
               (a # b /\ castVoteError(id, a, TRUE) = "ok"
                      /\ castVoteError(id, b, TRUE) = "ok") =>
                   \A ca \in Choices, cb \in Choices :
                       /\ CountsAfter(id, ca, cb) = CountsAfter(id, cb, ca)
                       /\ CastApplies(id, a, ca, b)
                       /\ CastApplies(id, b, cb, a)
        /\ \A a \in Addresses : \A b \in Marked(id) \ {a} :
               castVoteError(id, a, TRUE) = "ok" =>
                   \A ca \in Choices : CastApplies(id, a, ca, b)
\* alice voted for option 0 and then bob for option 1, inside the window: the
\* accumulators hold one vote each, as they would in the other order
C31_Witness ==
    \E id \in Existing :
        /\ InWindow(id)
        /\ Marked(id) = Addresses
        /\ CastOf(id, "alice") = <<0>>
        /\ CastOf(id, "bob") = <<1>>
        /\ votes[id].countHandles[1][2][3][2][2] = H_input("alice", 0)
        /\ PlainCounts(id)[1] = 1
        /\ PlainCounts(id)[2] = 1
        /\ castVoteError(id, "alice", TRUE) = "AlreadyVoted"

====
